---------------------------- MODULE Spec2Model ----------------------------
(***************************************************************************)
(* A model of src/main.py: the WhatsApp integration service.               *)
(*                                                                         *)
(* State: the process environment (os.environ), the Status Store           *)
(* (message_status_store), the Request Log (recent_requests) and the       *)
(* requests in flight.  A request is handled by a coroutine; the steps of  *)
(* the model are the stretches of code between two awaits at which another *)
(* coroutine can run.                                                      *)
(*                                                                         *)
(* JSON values are tagged records (JNull, JInt, JStr, JList, JDict), and   *)
(* the Python operations the handlers apply to them ("in", x[k], x.get,   *)
(* iteration) are operators that return either a value or the exception    *)
(* Python raises.  A raw request body is an index into RawBodies: the      *)
(* index stands for the bytes, RawBodies[i] for what json.loads reads.     *)
(***************************************************************************)
EXTENDS Integers, Sequences, FiniteSets, TLC

VARIABLES
    environ,               \* os.environ restricted to the two keys read by the webhook
    message_status_store,  \* main.py:25
    recent_requests,       \* main.py:26
    inflight,              \* the requests being handled: request number -> frame
    arrived,               \* number of requests received so far (source of request ids)
    issued,                \* history: tracking ids the provider returned in 2xx responses
    completed              \* history: every log entry ever appended, in completion order

vars == <<environ, message_status_store, recent_requests, inflight, arrived,
          issued, completed>>

-----------------------------------------------------------------------------
(* Bounds of the model *)

MaxRequests == 3        \* requests received in one behaviour of Spec
MaxInFlight == 2        \* requests handled concurrently in Spec
MaxLogRequests == 102   \* requests received in one behaviour of SpecLog

(* Program constant *)
MAX_STORED_REQUESTS == 100

-----------------------------------------------------------------------------
(* JSON values, as json.loads builds them *)

JNull == [t |-> "null"]
JInt(n) == [t |-> "int", n |-> n]
JStr(s) == [t |-> "str", s |-> s]
JList(xs) == [t |-> "list", xs |-> xs]
JDict(kv) == [t |-> "dict", kv |-> kv]

NoKeys == [k \in {} |-> JNull]
EmptyDict == JDict(NoKeys)
EmptyList == JList(<<>>)

(* The outcome of a Python expression: a value, or the exception raised. *)
Val(v) == [exc |-> "", v |-> v]
Raise(e) == [exc |-> e, v |-> JNull]

RECURSIVE SetToSeq(_)
SetToSeq(S) ==
    IF S = {} THEN <<>>
    ELSE LET x == CHOOSE y \in S : TRUE IN <<x>> \o SetToSeq(S \ {x})

(* key in container *)
PyIn(key, c) ==
    CASE c.t = "dict" -> Val(key \in DOMAIN c.kv)
      [] c.t = "list" -> Val(\E i \in 1..Len(c.xs) : c.xs[i] = JStr(key))
      [] c.t = "str"  -> Val(c.s = key)   \* substring test; no string of the model
                                          \* holds a key as a proper substring
      [] OTHER        -> Raise("TypeError")

(* container[key], key a string *)
PyGetItem(c, key) ==
    CASE c.t = "dict" -> IF key \in DOMAIN c.kv THEN Val(c.kv[key]) ELSE Raise("KeyError")
      [] OTHER        -> Raise("TypeError")

(* container[0] *)
PyFirst(c) ==
    CASE c.t = "list" -> IF Len(c.xs) > 0 THEN Val(c.xs[1]) ELSE Raise("IndexError")
      [] c.t = "str"  -> IF c.s # "" THEN Val(JStr(c.s)) ELSE Raise("IndexError")
      [] c.t = "dict" -> Raise("KeyError")
      [] OTHER        -> Raise("TypeError")

(* len(container) *)
PyLen(c) ==
    CASE c.t = "list" -> Val(Len(c.xs))
      [] c.t = "dict" -> Val(Cardinality(DOMAIN c.kv))
      [] c.t = "str"  -> Val(IF c.s = "" THEN 0 ELSE 1)
      [] OTHER        -> Raise("TypeError")

(* obj.get(key, default): only a dict has the method *)
PyGet(c, key, default) ==
    IF c.t = "dict"
    THEN Val(IF key \in DOMAIN c.kv THEN c.kv[key] ELSE default)
    ELSE Raise("AttributeError")

(* The elements a for loop visits.  The keys of a dict and the characters  *)
(* of a string are strings; the loops of main.py fail on the first of them *)
(* whichever it is, so their order is immaterial.                          *)
PyIter(c) ==
    CASE c.t = "list" -> [exc |-> "", xs |-> c.xs]
      [] c.t = "dict" -> [exc |-> "", xs |-> SetToSeq({JStr(k) : k \in DOMAIN c.kv})]
      [] c.t = "str"  -> [exc |-> "", xs |-> IF c.s = "" THEN <<>> ELSE <<JStr(c.s)>>]
      [] OTHER        -> [exc |-> "TypeError", xs |-> <<>>]

(* Whether a value can be a dict key: lists and dicts are unhashable. *)
Hashable(v) == v.t \notin {"list", "dict"}

-----------------------------------------------------------------------------
(* The process environment *)

NoEnv == [set |-> FALSE, s |-> ""]          \* os.getenv(...) is None
EnvStr(s) == [set |-> TRUE, s |-> s]

(* The .env file load_dotenv() reads *)
DotEnvFile == [META_APP_SECRET |-> EnvStr("s1"), WEBHOOK_VERIFY_TOKEN |-> EnvStr("T1")]

(* The environments the process can be started in *)
InitialEnvirons ==
    [META_APP_SECRET : {NoEnv, EnvStr("s2")}, WEBHOOK_VERIFY_TOKEN : {NoEnv}]

(* load_dotenv(): a key of the file is set unless the environment has it *)
load_dotenv(env) ==
    [k \in DOMAIN env |-> IF env[k].set THEN env[k] ELSE DotEnvFile[k]]

(* os.environ.get("WEBHOOK_VERIFY_TOKEN", "your_verify_token") *)
ExpectedVerifyToken(env) ==
    IF env.WEBHOOK_VERIFY_TOKEN.set THEN env.WEBHOOK_VERIFY_TOKEN.s ELSE "your_verify_token"

-----------------------------------------------------------------------------
(* What a handler hands back to the framework *)

NoResp == [kind |-> "none", code |-> 0, detail |-> "", exc |-> "", body |-> JNull]
Return(body) == [kind |-> "return", code |-> 200, detail |-> "", exc |-> "", body |-> body]
HTTPException(code, detail, e) ==
    [kind |-> "HTTPException", code |-> code, detail |-> detail, exc |-> e, body |-> JNull]
(* an exception that leaves the handler: the framework has no handler for it *)
Uncaught(e) == [kind |-> "exception", code |-> 0, detail |-> "", exc |-> e, body |-> JNull]

-----------------------------------------------------------------------------
(* Webhook request bodies.  RawBodies[i] is json.loads of body i, or       *)
(* Unparseable when json.loads raises.                                      *)

Unparseable == [t |-> "unparseable"]

Handshake(token, challenge) ==
    JDict("hub.mode" :> JStr("subscribe") @@ "hub.verify_token" :> JStr(token)
          @@ "hub.challenge" :> JStr(challenge))

StatusItem(id, status) == JDict("id" :> JStr(id) @@ "status" :> JStr(status))

Change(field, statuses) ==
    JDict("field" :> JStr(field) @@ "value" :> JDict("statuses" :> JList(statuses)))

Payload(changes) == JDict("entry" :> JList(<<JDict("changes" :> JList(changes))>>))

RawBodies ==
    << Handshake("T1", "C1"),
       Handshake("your_verify_token", "C2"),
       JDict("hub.mode" :> JStr("subscribe")),
       JDict("hub.mode" :> JStr("subscribe") @@ "hub.verify_token" :> JStr("T1")),
       JDict("hub.mode" :> JStr("unsubscribe") @@ "hub.verify_token" :> JStr("T1")),
       Payload(<<Change("messages", <<StatusItem("X1", "delivered")>>)>>),
       Payload(<<Change("messages", <<StatusItem("X1", "delivered"),
                                      StatusItem("X1", "read")>>)>>),
       Payload(<<Change("messages", <<StatusItem("X1", "read"), JStr("garbage"),
                                      StatusItem("X2", "read")>>)>>),
       Payload(<<Change("messages", <<JDict("recipient_id" :> JStr("p1")),
                                      StatusItem("X2", "failed")>>)>>),
       Payload(<<Change("account_update", <<StatusItem("X1", "failed")>>),
                 JDict("value" :> JDict("statuses" :> JList(<<StatusItem("X1", "failed")>>))),
                 Change("messages", <<StatusItem("X2", "delivered")>>)>>),
       JDict("entry" :> JInt(5)),
       Unparseable,
       JInt(7),
       JList(<<JStr("hub.mode")>>),
       JList(<<JStr("entry")>>) >>

RawBodyIds == 1..Len(RawBodies)

(* request.json() *)
JsonLoads(raw) ==
    IF RawBodies[raw] = Unparseable THEN Raise("JSONDecodeError") ELSE Val(RawBodies[raw])

-----------------------------------------------------------------------------
(* Signature Verifier *)

HexDigits == <<"0", "1", "2", "3", "4", "5", "6", "7",
               "8", "9", "a", "b", "c", "d", "e", "f">>

KeyCode(secret) == CASE secret = "s1" -> 3 [] secret = "s2" -> 11 [] OTHER -> 0

(* hmac.new(secret, body, sha256).hexdigest(): a keyed digest of the bytes, *)
(* here one hex digit computed from the key and the body.                   *)
HmacSha256Hex(secret, raw) == HexDigits[((KeyCode(secret) + 5 * raw) % 16) + 1]

Sign(secret, raw) == "sha256=" \o HmacSha256Hex(secret, raw)

(* A header value with a byte above 0x7f: headers decode as latin-1. *)
NonAsciiSignature == "sha256=<e9>"
IsAscii(s) == s # NonAsciiSignature

(* hmac.compare_digest(a, b) on str arguments *)
compare_digest(a, b) ==
    IF IsAscii(a) /\ IsAscii(b) THEN [exc |-> "", v |-> (a = b)]
    ELSE [exc |-> "TypeError", v |-> FALSE]

(* The values of the x-hub-signature-256 header a request with body raw may *)
(* carry; "" is what request.headers.get(..., "") gives without the header. *)
Signatures(raw) ==
    {"", Sign("s1", raw), Sign("s2", raw), HmacSha256Hex("s1", raw), NonAsciiSignature}

(* Faulty variant: the comparison is read the wrong way round. *)
verify_webhook_signature_inverted(app_secret, signature, raw) ==
    IF signature = "" THEN Return(JNull)
    ELSE IF ~app_secret.set THEN Uncaught("AttributeError")
    ELSE LET same == compare_digest(signature, Sign(app_secret.s, raw))
         IN  IF same.exc # "" THEN Uncaught(same.exc)
             ELSE IF same.v THEN HTTPException(403, "Invalid webhook signature", "")
             ELSE Return(JNull)

(* Faulty variant: a request without the header is turned down. *)
verify_webhook_signature_strict(app_secret, signature, raw) ==
    IF ~app_secret.set THEN Uncaught("AttributeError")
    ELSE LET same == compare_digest(signature, Sign(app_secret.s, raw))
         IN  IF same.exc # "" THEN Uncaught(same.exc)
             ELSE IF ~same.v THEN HTTPException(403, "Invalid webhook signature", "")
             ELSE Return(JNull)

(* verify_webhook_signature: the dependency's result. *)
verify_webhook_signature(app_secret, signature, raw) ==
    IF signature = "" THEN Return(JNull)
    ELSE IF ~app_secret.set THEN Uncaught("AttributeError")
    ELSE LET expected_signature == Sign(app_secret.s, raw)
             same == compare_digest(signature, expected_signature)
         IN  IF same.exc # "" THEN Uncaught(same.exc)
             ELSE IF ~same.v THEN HTTPException(403, "Invalid webhook signature", "")
             ELSE Return(JNull)

-----------------------------------------------------------------------------
(* Status Store *)

MessageRecord(phone_number, status, details) ==
    [phone_number |-> phone_number, status |-> status, details |-> details]

(* Faulty variant: the store is rebound to a dict holding the one record. *)
StoreSet_rebinds(store, message_id, record) == [k \in {message_id} |-> record]

(* message_status_store[message_id] = {...}: insert or replace *)
StoreSet(store, message_id, record) ==
    [k \in DOMAIN store \cup {message_id} |->
        IF k = message_id THEN record ELSE store[k]]

(* The loops of the webhook carry the store and the exception that ended them. *)
Loop(store, exc) == [store |-> store, exc |-> exc]

(* Faulty variant: the status is overwritten, the details are not. *)
UpdateStatus_keeps_details(store, status) ==
    LET message_id == PyGet(status, "id", JNull)
    IN  IF message_id.exc # "" THEN Loop(store, message_id.exc)
        ELSE IF ~Hashable(message_id.v) THEN Loop(store, "TypeError")
        ELSE IF message_id.v \in DOMAIN store
        THEN Loop(StoreSet(store, message_id.v,
                           MessageRecord(store[message_id.v].phone_number,
                                         PyGet(status, "status", JNull).v,
                                         store[message_id.v].details)), "")
        ELSE Loop(store, "")

(* Faulty variant: an update for an untracked id creates a record. *)
UpdateStatus_upsert(store, status) ==
    LET message_id == PyGet(status, "id", JNull)
    IN  IF message_id.exc # "" THEN Loop(store, message_id.exc)
        ELSE IF ~Hashable(message_id.v) THEN Loop(store, "TypeError")
        ELSE Loop(StoreSet(store, message_id.v,
                           MessageRecord(IF message_id.v \in DOMAIN store
                                         THEN store[message_id.v].phone_number ELSE "",
                                         PyGet(status, "status", JNull).v,
                                         status)), "")

(* Faulty variant: the record is indexed without the membership test. *)
UpdateStatus_unchecked(store, status) ==
    LET message_id == PyGet(status, "id", JNull)
    IN  IF message_id.exc # "" THEN Loop(store, message_id.exc)
        ELSE IF ~Hashable(message_id.v) THEN Loop(store, "TypeError")
        ELSE IF message_id.v \in DOMAIN store
        THEN Loop(StoreSet(store, message_id.v,
                           MessageRecord(store[message_id.v].phone_number,
                                         PyGet(status, "status", JNull).v,
                                         status)), "")
        ELSE Loop(store, "KeyError")

(* Faulty variant: the id test is dropped, every record takes the update. *)
UpdateStatus_every_record(store, status) ==
    LET message_id == PyGet(status, "id", JNull)
    IN  IF message_id.exc # "" THEN Loop(store, message_id.exc)
        ELSE IF ~Hashable(message_id.v) THEN Loop(store, "TypeError")
        ELSE Loop([k \in DOMAIN store |->
                     MessageRecord(store[k].phone_number,
                                   PyGet(status, "status", JNull).v, status)], "")

(* One pass of the loop body of process_message_status_updates *)
UpdateStatus(store, status) ==
    LET message_id == PyGet(status, "id", JNull)
    IN  IF message_id.exc # "" THEN Loop(store, message_id.exc)
        ELSE IF ~Hashable(message_id.v) THEN Loop(store, "TypeError")
        ELSE IF message_id.v \in DOMAIN store
        THEN Loop(StoreSet(store, message_id.v,
                           MessageRecord(store[message_id.v].phone_number,
                                         PyGet(status, "status", JNull).v,
                                         status)), "")
        ELSE Loop(store, "")

RECURSIVE ForEachStatus(_, _, _)
ForEachStatus(xs, i, store) ==
    IF i > Len(xs) THEN Loop(store, "")
    ELSE LET r == UpdateStatus(store, xs[i])
         IN  IF r.exc # "" THEN r ELSE ForEachStatus(xs, i + 1, r.store)

process_message_status_updates(data, store) ==
    LET has == PyIn("statuses", data)
    IN  IF has.exc # "" THEN Loop(store, has.exc)
        ELSE IF ~has.v THEN Loop(store, "")
        ELSE LET statuses == PyGetItem(data, "statuses")
             IN  IF statuses.exc # "" THEN Loop(store, statuses.exc)
                 ELSE LET it == PyIter(statuses.v)
                      IN  IF it.exc # "" THEN Loop(store, it.exc)
                          ELSE ForEachStatus(it.xs, 1, store)

(* Faulty variant: the field of the change is not looked at. *)
ProcessChange_any_field(store, change) ==
    LET field == PyGet(change, "field", JNull)
    IN  IF field.exc # "" THEN Loop(store, field.exc)
        ELSE process_message_status_updates(PyGet(change, "value", EmptyDict).v, store)

(* One pass of "for change in entry.get('changes', [])" *)
ProcessChange(store, change) ==
    LET field == PyGet(change, "field", JNull)
    IN  IF field.exc # "" THEN Loop(store, field.exc)
        ELSE IF field.v = JStr("messages")
        THEN process_message_status_updates(PyGet(change, "value", EmptyDict).v, store)
        ELSE Loop(store, "")

RECURSIVE ForEachChange(_, _, _)
ForEachChange(xs, i, store) ==
    IF i > Len(xs) THEN Loop(store, "")
    ELSE LET r == ProcessChange(store, xs[i])
         IN  IF r.exc # "" THEN r ELSE ForEachChange(xs, i + 1, r.store)

(* One pass of "for entry in body['entry']" *)
ProcessEntry(store, entry) ==
    LET changes == PyGet(entry, "changes", EmptyList)
    IN  IF changes.exc # "" THEN Loop(store, changes.exc)
        ELSE LET it == PyIter(changes.v)
             IN  IF it.exc # "" THEN Loop(store, it.exc)
                 ELSE ForEachChange(it.xs, 1, store)

RECURSIVE ForEachEntry(_, _, _)
ForEachEntry(xs, i, store) ==
    IF i > Len(xs) THEN Loop(store, "")
    ELSE LET r == ProcessEntry(store, xs[i])
         IN  IF r.exc # "" THEN r ELSE ForEachEntry(xs, i + 1, r.store)

(* The body of the try block of whatsapp_webhook, lines 110-114 *)
ProcessEntries(body, store) ==
    LET has == PyIn("entry", body)
    IN  IF has.exc # "" THEN Loop(store, has.exc)
        ELSE IF ~has.v THEN Loop(store, "")
        ELSE LET entries == PyGetItem(body, "entry")
             IN  IF entries.exc # "" THEN Loop(store, entries.exc)
                 ELSE LET it == PyIter(entries.v)
                      IN  IF it.exc # "" THEN Loop(store, it.exc)
                          ELSE ForEachEntry(it.xs, 1, store)

(* What a handler does: its response and the store it leaves. *)
Effect(resp, store) == [resp |-> resp, store |-> store]

(* Faulty variant: the except clause restores the store the request found. *)
StatusUpdates_rolls_back(body, store) ==
    LET r == ProcessEntries(body, store)
    IN  IF r.exc = ""
        THEN Effect(Return(JDict("status" :> JStr("received"))), r.store)
        ELSE Effect(HTTPException(500, "Failed to process webhook", r.exc), store)

(* lines 108-118: the try block and its except clause *)
StatusUpdates(body, store) ==
    LET r == ProcessEntries(body, store)
    IN  IF r.exc = ""
        THEN Effect(Return(JDict("status" :> JStr("received"))), r.store)
        ELSE Effect(HTTPException(500, "Failed to process webhook", r.exc), r.store)

(* Faulty variant: the handshake echoes the token instead of the challenge. *)
Challenge_echoes_token(body, env) ==
    LET has == PyIn("hub.mode", body)
        mode == PyGetItem(body, "hub.mode")
        token == PyGetItem(body, "hub.verify_token")
        challenge == PyGetItem(body, "hub.challenge")
    IN  IF has.exc # "" THEN [handled |-> TRUE, resp |-> Uncaught(has.exc)]
        ELSE IF ~has.v THEN [handled |-> FALSE, resp |-> NoResp]
        ELSE IF mode.exc # "" THEN [handled |-> TRUE, resp |-> Uncaught(mode.exc)]
        ELSE IF mode.v # JStr("subscribe") THEN [handled |-> FALSE, resp |-> NoResp]
        ELSE IF token.exc # "" THEN [handled |-> TRUE, resp |-> Uncaught(token.exc)]
        ELSE IF token.v # JStr(ExpectedVerifyToken(env))
        THEN [handled |-> TRUE,
              resp |-> HTTPException(403, "Verification token mismatch", "")]
        ELSE IF challenge.exc # "" THEN [handled |-> TRUE, resp |-> Uncaught(challenge.exc)]
        ELSE [handled |-> TRUE, resp |-> Return(JDict("hub.challenge" :> token.v))]

(* lines 102-106: the verification challenge.  handled is FALSE when the   *)
(* body is no handshake and the handler goes on to the status updates.     *)
Challenge(body, env) ==
    LET has == PyIn("hub.mode", body)
        mode == PyGetItem(body, "hub.mode")
        token == PyGetItem(body, "hub.verify_token")
        challenge == PyGetItem(body, "hub.challenge")
    IN  IF has.exc # "" THEN [handled |-> TRUE, resp |-> Uncaught(has.exc)]
        ELSE IF ~has.v THEN [handled |-> FALSE, resp |-> NoResp]
        ELSE IF mode.exc # "" THEN [handled |-> TRUE, resp |-> Uncaught(mode.exc)]
        ELSE IF mode.v # JStr("subscribe") THEN [handled |-> FALSE, resp |-> NoResp]
        ELSE IF token.exc # "" THEN [handled |-> TRUE, resp |-> Uncaught(token.exc)]
        ELSE IF token.v # JStr(ExpectedVerifyToken(env))
        THEN [handled |-> TRUE,
              resp |-> HTTPException(403, "Verification token mismatch", "")]
        ELSE IF challenge.exc # "" THEN [handled |-> TRUE, resp |-> Uncaught(challenge.exc)]
        ELSE [handled |-> TRUE, resp |-> Return(JDict("hub.challenge" :> challenge.v))]

(* whatsapp_webhook, lines 99-118, once the dependency has returned *)
whatsapp_webhook(raw, env, store) ==
    LET body == JsonLoads(raw)
    IN  IF body.exc # "" THEN Effect(Uncaught(body.exc), store)
        ELSE LET c == Challenge(body.v, env)
             IN  IF c.handled THEN Effect(c.resp, store)
                 ELSE StatusUpdates(body.v, store)

-----------------------------------------------------------------------------
(* Message Dispatcher *)

(* What "await client.post(...)" can end with: a transport error, an error *)
(* status, or a 2xx response whose body is ProviderBodies[json].           *)
ProviderBodies ==
    << JDict("messages" :> JList(<<JDict("id" :> JStr("X1"))>>)),
       JDict("messages" :> JList(<<JDict("id" :> JStr("X2"))>>)),
       JDict("messages" :> EmptyList),
       JDict("contacts" :> EmptyList),
       JDict("messages" :> JList(<<JDict("message_status" :> JStr("accepted"))>>)),
       Unparseable >>

ProviderErrorCodes == {401, 503}

ProviderOutcomes ==
    {[kind |-> "ConnectError", code |-> 0, json |-> 0]}
    \cup {[kind |-> "status", code |-> c, json |-> 0] : c \in ProviderErrorCodes}
    \cup {[kind |-> "status", code |-> 200, json |-> j] : j \in 1..Len(ProviderBodies)}

(* response.json() *)
ResponseJson(outcome) ==
    IF ProviderBodies[outcome.json] = Unparseable THEN Raise("JSONDecodeError")
    ELSE Val(ProviderBodies[outcome.json])

(* Faulty variant: the record is stored under the recipient, not the id. *)
Register_by_phone(result, phone_number, store) ==
    LET has == PyIn("messages", result)
        messages == PyGetItem(result, "messages")
        n == PyLen(messages.v)
        first == PyFirst(messages.v)
        message_id == PyGetItem(first.v, "id")
    IN  IF has.exc # "" THEN Loop(store, has.exc)
        ELSE IF ~has.v THEN Loop(store, "")
        ELSE IF messages.exc # "" THEN Loop(store, messages.exc)
        ELSE IF n.exc # "" THEN Loop(store, n.exc)
        ELSE IF ~(n.v > 0) THEN Loop(store, "")
        ELSE IF first.exc # "" THEN Loop(store, first.exc)
        ELSE IF message_id.exc # "" THEN Loop(store, message_id.exc)
        ELSE Loop(StoreSet(store, JStr(phone_number),
                           MessageRecord(phone_number, JStr("sent"), EmptyDict)), "")

(* lines 55-61: the record registered for a parsed response, if any *)
Register(result, phone_number, store) ==
    LET has == PyIn("messages", result)
        messages == PyGetItem(result, "messages")
        n == PyLen(messages.v)
        first == PyFirst(messages.v)
        message_id == PyGetItem(first.v, "id")
    IN  IF has.exc # "" THEN Loop(store, has.exc)
        ELSE IF ~has.v THEN Loop(store, "")
        ELSE IF messages.exc # "" THEN Loop(store, messages.exc)
        ELSE IF n.exc # "" THEN Loop(store, n.exc)
        ELSE IF ~(n.v > 0) THEN Loop(store, "")
        ELSE IF first.exc # "" THEN Loop(store, first.exc)
        ELSE IF message_id.exc # "" THEN Loop(store, message_id.exc)
        ELSE IF ~Hashable(message_id.v) THEN Loop(store, "TypeError")
        ELSE Loop(StoreSet(store, message_id.v,
                           MessageRecord(phone_number, JStr("sent"), EmptyDict)), "")

(* Faulty variant: a provider error is reported as a generic 500. *)
send_whatsapp_message_generic_error(phone_number, outcome, store) ==
    IF outcome.kind = "ConnectError" \/ outcome.code # 200
    THEN Effect(HTTPException(500, "Failed to send WhatsApp message", "ConnectError"), store)
    ELSE LET result == ResponseJson(outcome)
         IN  IF result.exc # ""
             THEN Effect(HTTPException(500, "Failed to send WhatsApp message", result.exc),
                         store)
             ELSE LET r == Register(result.v, phone_number, store)
                  IN  IF r.exc # ""
                      THEN Effect(HTTPException(500, "Failed to send WhatsApp message",
                                                r.exc), r.store)
                      ELSE Effect(Return(JDict("status" :> JStr("message_sent")
                                               @@ "api_response" :> result.v)), r.store)

(* send_whatsapp_message, lines 52-71, once the provider has answered *)
send_whatsapp_message(phone_number, outcome, store) ==
    IF outcome.kind = "ConnectError"
    THEN Effect(HTTPException(500, "Failed to send WhatsApp message", "ConnectError"), store)
    ELSE IF outcome.code # 200
    THEN Effect(HTTPException(outcome.code, "WhatsApp API error", "HTTPStatusError"), store)
    ELSE LET result == ResponseJson(outcome)
         IN  IF result.exc # ""
             THEN Effect(HTTPException(500, "Failed to send WhatsApp message", result.exc),
                         store)
             ELSE LET r == Register(result.v, phone_number, store)
                  IN  IF r.exc # ""
                      THEN Effect(HTTPException(500, "Failed to send WhatsApp message",
                                                r.exc), r.store)
                      ELSE Effect(Return(JDict("status" :> JStr("message_sent")
                                               @@ "api_response" :> result.v)), r.store)

(* History: the tracking id a 2xx response of the provider carries, if any *)
ProviderIds(outcome) ==
    IF outcome.kind = "status" /\ outcome.code = 200
       /\ ProviderBodies[outcome.json] # Unparseable
    THEN LET messages == PyGetItem(ProviderBodies[outcome.json], "messages")
             first == PyFirst(messages.v)
             message_id == PyGetItem(first.v, "id")
         IN  IF messages.exc = "" /\ first.exc = "" /\ message_id.exc = ""
             THEN {message_id.v} ELSE {}
    ELSE {}

-----------------------------------------------------------------------------
(* Status queries and monitoring *)

QueryIds == {"X1", "X2"}

(* get_message_status *)
get_message_status(message_id, store) ==
    IF JStr(message_id) \in DOMAIN store
    THEN Return([t |-> "record", record |-> store[JStr(message_id)]])
    ELSE HTTPException(404, "Message ID not found", "")

(* get_all_message_statuses *)
get_all_message_statuses(store) == Return([t |-> "store", store |-> store])

(* get_recent_requests *)
get_recent_requests(log) == Return([t |-> "requests", requests |-> log])

-----------------------------------------------------------------------------
(* Request Log *)

(* Faulty variant: the except clause does not set the status code, which   *)
(* keeps a default of 200.                                                  *)
LogEntry_default_200(id, frame) ==
    [id |-> id, path |-> frame.path,
     status_code |-> IF frame.resp.kind = "exception" THEN 200 ELSE frame.resp.code,
     error |-> IF frame.resp.kind = "exception" THEN frame.resp.exc ELSE ""]

(* lines 168-173 and 178-189: the entry the middleware builds.  The fields *)
(* kept are the request id, the path, the status code and the error text.  *)
LogEntry(id, frame) ==
    [id |-> id, path |-> frame.path,
     status_code |-> IF frame.resp.kind = "exception" THEN 500 ELSE frame.resp.code,
     error |-> IF frame.resp.kind = "exception" THEN frame.resp.exc ELSE ""]

(* Faulty variant: nothing is evicted. *)
AppendEntry_unbounded(log, entry) == Append(log, entry)

(* Faulty variant: over the capacity, the newest entry is dropped. *)
AppendEntry_drops_newest(log, entry) ==
    LET appended == Append(log, entry)
    IN  IF Len(appended) > MAX_STORED_REQUESTS
        THEN SubSeq(appended, 1, Len(appended) - 1) ELSE appended

(* lines 193-195: append, then evict the oldest entry over the capacity *)
AppendEntry(log, entry) ==
    LET appended == Append(log, entry)
    IN  IF Len(appended) > MAX_STORED_REQUESTS THEN Tail(appended) ELSE appended

-----------------------------------------------------------------------------
(* Requests in flight *)

WEBHOOK == "/whatsapp/webhook"
SEND == "/send-whatsapp-message"
STATUS == "/message-status/"
ALL == "/all-message-statuses"
MONITORING == "/monitoring/requests"

PhoneNumbers == {"p1"}

(* No answer of the provider yet *)
NoOutcome == [kind |-> "none", code |-> 0, json |-> 0]

(* History: the records of store that a step replaced by different ones *)
Replaced(store, after) ==
    {store[k] : k \in {x \in DOMAIN store \cap DOMAIN after : after[x] # store[x]}}

(* The frame of a request: its inputs, where its coroutine stands (pc) and, *)
(* once the endpoint is done, what it handed back (resp).  A dispatch also  *)
(* keeps the answer of the provider (outcome, the local "response" of line  *)
(* 51) and, as history, the records its registration replaced; a webhook    *)
(* taken statement by statement keeps the position i of its loop over the   *)
(* statuses.                                                                *)
Frame(path, pc, raw, signature, arg) ==
    [path |-> path, pc |-> pc, raw |-> raw, signature |-> signature, arg |-> arg,
     resp |-> NoResp, outcome |-> NoOutcome, replaced |-> {}, i |-> 0]

(* Every body arrives without a signature header; a handshake, a status     *)
(* update and an unparseable body also arrive with each signature value.   *)
SignedBodies == {1, 6, 12}

WebhookFrames ==
    {Frame(WEBHOOK, "verify", raw, "", "") : raw \in RawBodyIds}
    \cup UNION {{Frame(WEBHOOK, "verify", raw, sig, "") : sig \in Signatures(raw)} :
                raw \in SignedBodies}

NewFrames ==
    WebhookFrames
    \cup {Frame(SEND, "send", 0, "", p) : p \in PhoneNumbers}
    \cup {Frame(STATUS \o id, "endpoint", 0, "", id) : id \in QueryIds}
    \cup {Frame(ALL, "endpoint", 0, "", ""), Frame(MONITORING, "endpoint", 0, "", "")}

Requests == DOMAIN inflight

At(r, path, pc) == r \in Requests /\ inflight[r].path = path /\ inflight[r].pc = pc

(* The coroutine of request r moves on to pc with response resp. *)
Step(r, pc, resp) == [inflight EXCEPT ![r].pc = pc, ![r].resp = resp]

Start(frame) ==
    /\ arrived' = arrived + 1
    /\ inflight' = [r \in Requests \cup {arrived + 1} |->
                      IF r = arrived + 1 THEN frame ELSE inflight[r]]
    /\ UNCHANGED <<environ, message_status_store, recent_requests, issued, completed>>

(* log_requests, lines 146-165: a request arrives and gets its id *)
Arrive ==
    /\ arrived < MaxRequests
    /\ Cardinality(Requests) < MaxInFlight
    /\ \E frame \in NewFrames : Start(frame)

(* The dependency verify_webhook_signature runs before the endpoint. *)
WebhookVerify(r) ==
    /\ At(r, WEBHOOK, "verify")
    /\ LET verified == verify_webhook_signature(environ.META_APP_SECRET,
                                                inflight[r].signature, inflight[r].raw)
       IN  inflight' = IF verified.kind = "return"
                       THEN Step(r, "endpoint", NoResp)
                       ELSE Step(r, "finally", verified)
    /\ UNCHANGED <<environ, message_status_store, recent_requests, arrived, issued,
                   completed>>

WebhookEndpoint(r) ==
    /\ At(r, WEBHOOK, "endpoint")
    /\ LET done == whatsapp_webhook(inflight[r].raw, environ, message_status_store)
       IN  /\ message_status_store' = done.store
           /\ inflight' = Step(r, "finally", done.resp)
    /\ UNCHANGED <<environ, recent_requests, arrived, issued, completed>>

(* send_whatsapp_message, lines 32-51: up to the await of the provider *)
SendStart(r) ==
    /\ At(r, SEND, "send")
    /\ environ' = load_dotenv(environ)
    /\ inflight' = Step(r, "await", NoResp)
    /\ UNCHANGED <<message_status_store, recent_requests, arrived, issued, completed>>

(* send_whatsapp_message, lines 52-71: the provider has answered *)
SendFinish(r) ==
    /\ At(r, SEND, "await")
    /\ \E outcome \in ProviderOutcomes :
         LET done == send_whatsapp_message(inflight[r].arg, outcome, message_status_store)
         IN  /\ message_status_store' = done.store
             /\ inflight' = [Step(r, "finally", done.resp) EXCEPT
                                ![r].outcome = outcome,
                                ![r].replaced = Replaced(message_status_store, done.store)]
             /\ issued' = issued \cup ProviderIds(outcome)
    /\ UNCHANGED <<environ, recent_requests, arrived, completed>>

GetMessageStatus(r) ==
    /\ r \in Requests /\ inflight[r].pc = "endpoint"
    /\ inflight[r].path \in {STATUS \o id : id \in QueryIds}
    /\ inflight' = Step(r, "finally",
                        get_message_status(inflight[r].arg, message_status_store))
    /\ UNCHANGED <<environ, message_status_store, recent_requests, arrived, issued,
                   completed>>

GetAllMessageStatuses(r) ==
    /\ At(r, ALL, "endpoint")
    /\ inflight' = Step(r, "finally", get_all_message_statuses(message_status_store))
    /\ UNCHANGED <<environ, message_status_store, recent_requests, arrived, issued,
                   completed>>

GetRecentRequests(r) ==
    /\ At(r, MONITORING, "endpoint")
    /\ inflight' = Step(r, "finally", get_recent_requests(recent_requests))
    /\ UNCHANGED <<environ, message_status_store, recent_requests, arrived, issued,
                   completed>>

(* log_requests, lines 168-197: the endpoint is done, the entry is logged *)
LogRequest(r) ==
    /\ r \in Requests /\ inflight[r].pc = "finally"
    /\ recent_requests' = AppendEntry(recent_requests, LogEntry(r, inflight[r]))
    /\ completed' = Append(completed, LogEntry(r, inflight[r]))
    /\ inflight' = [q \in Requests \ {r} |-> inflight[q]]
    /\ UNCHANGED <<environ, message_status_store, arrived, issued>>

-----------------------------------------------------------------------------
(* The service *)

NoStore == [k \in {} |-> MessageRecord("", JNull, JNull)]
NoRequests == [r \in {} |-> Frame("", "", 0, "", "")]

Init ==
    /\ environ \in InitialEnvirons
    /\ message_status_store = NoStore
    /\ recent_requests = <<>>
    /\ inflight = NoRequests
    /\ arrived = 0
    /\ issued = {}
    /\ completed = <<>>

Next ==
    \/ Arrive
    \/ \E r \in Requests : WebhookVerify(r)
    \/ \E r \in Requests : WebhookEndpoint(r)
    \/ \E r \in Requests : SendStart(r)
    \/ \E r \in Requests : SendFinish(r)
    \/ \E r \in Requests : GetMessageStatus(r)
    \/ \E r \in Requests : GetAllMessageStatuses(r)
    \/ \E r \in Requests : GetRecentRequests(r)
    \/ \E r \in Requests : LogRequest(r)

Spec == Init /\ [][Next]_vars

(* A long run of monitoring requests, one at a time: the Request Log fills *)
(* up to its capacity and beyond.                                           *)
ArriveMonitoring ==
    /\ arrived < MaxLogRequests
    /\ Requests = {}
    /\ Start(Frame(MONITORING, "endpoint", 0, "", ""))

NextLog ==
    \/ ArriveMonitoring
    \/ \E r \in Requests : GetRecentRequests(r)
    \/ \E r \in Requests : LogRequest(r)

SpecLog == Init /\ [][NextLog]_vars

-----------------------------------------------------------------------------
(* The event loop, statement by statement *)

(* In SpecSteps the two mutations that take more than one statement, the   *)
(* update of a record (lines 125-128) and the append and eviction of the   *)
(* log (lines 193-195), are taken one statement at a time.  The handlers   *)
(* are coroutines of one event loop: a coroutine that has been resumed     *)
(* runs until its next await, and only then is another one resumed.        *)

MaxStepRequests == 3    \* requests received in one behaviour of SpecSteps

(* Faulty variant: the middleware awaits between append and eviction, and  *)
(* the update of a record awaits between its two assignments.              *)
YieldPoints_inside_mutations ==
    {"verify", "endpoint", "send", "await", "finally", "evict", "details"}

(* Where a coroutine can be suspended: before it has run ("verify", "send", *)
(* "endpoint" of a query), at await request.json() (line 99, "endpoint" of *)
(* a webhook), at await client.post (line 51, "await") and at await        *)
(* call_next (line 167, "finally").                                        *)
YieldPoints == {"verify", "endpoint", "send", "await", "finally"}

(* The coroutines that have been resumed and have not reached an await *)
Running == {r \in Requests : inflight[r].pc \notin YieldPoints}

(* The event loop lets the coroutine of request r take a step. *)
Turn(r) == Running \subseteq {r}

(* The status updates handled statement by statement: "X1 delivered" and   *)
(* "X1 delivered, X1 read"                                                  *)
StepBodies == {6, 7}

(* The status objects the loops of lines 111-114 and 124 visit, in order *)
ChangeStatuses(change) ==
    LET data == PyGet(change, "value", EmptyDict).v
    IN  IF PyGet(change, "field", JNull).v = JStr("messages") /\ PyIn("statuses", data).v
        THEN PyIter(PyGetItem(data, "statuses").v).xs
        ELSE <<>>

RECURSIVE EntryStatuses(_, _)
EntryStatuses(changes, c) ==
    IF c > Len(changes) THEN <<>>
    ELSE ChangeStatuses(changes[c]) \o EntryStatuses(changes, c + 1)

RECURSIVE BodyStatuses(_, _)
BodyStatuses(entries, e) ==
    IF e > Len(entries) THEN <<>>
    ELSE EntryStatuses(PyIter(PyGet(entries[e], "changes", EmptyList).v).xs, 1)
         \o BodyStatuses(entries, e + 1)

StatusList(raw) == BodyStatuses(PyIter(PyGetItem(RawBodies[raw], "entry").v).xs, 1)

StepFrames ==
    {Frame(WEBHOOK, "verify", raw, "", "") : raw \in StepBodies}
    \cup {Frame(SEND, "send", 0, "", p) : p \in PhoneNumbers}
    \cup {Frame(STATUS \o "X1", "endpoint", 0, "", "X1")}

(* A request is accepted when no coroutine is running. *)
ArriveSteps ==
    /\ Running = {}
    /\ arrived < MAX_STORED_REQUESTS - 1 + MaxStepRequests
    /\ Cardinality(Requests) < MaxInFlight
    /\ \E frame \in StepFrames : Start(frame)

(* The loop over the statuses moves on to the status after position i, or  *)
(* the handler returns the acknowledgement of line 116.                    *)
NextStatus(r, i) ==
    IF i < Len(StatusList(inflight[r].raw))
    THEN [inflight EXCEPT ![r].pc = "lookup", ![r].i = i + 1]
    ELSE [inflight EXCEPT ![r].pc = "finally", ![r].i = 0,
                          ![r].resp = Return(JDict("status" :> JStr("received")))]

(* lines 99-114: request.json() has returned; up to the first status *)
WebhookBegin(r) ==
    /\ At(r, WEBHOOK, "endpoint") /\ Turn(r)
    /\ inflight' = NextStatus(r, 0)
    /\ UNCHANGED <<environ, message_status_store, recent_requests, arrived, issued,
                   completed>>

(* lines 125-126: message_id = status.get("id"); if message_id in the store *)
WebhookLookup(r) ==
    /\ At(r, WEBHOOK, "lookup") /\ Turn(r)
    /\ LET status == StatusList(inflight[r].raw)[inflight[r].i]
           message_id == PyGet(status, "id", JNull).v
       IN  inflight' = IF message_id \in DOMAIN message_status_store
                       THEN [inflight EXCEPT ![r].pc = "status"]
                       ELSE NextStatus(r, inflight[r].i)
    /\ UNCHANGED <<environ, message_status_store, recent_requests, arrived, issued,
                   completed>>

(* line 127: message_status_store[message_id]["status"] = status.get("status") *)
WebhookSetStatus(r) ==
    /\ At(r, WEBHOOK, "status") /\ Turn(r)
    /\ LET status == StatusList(inflight[r].raw)[inflight[r].i]
           message_id == PyGet(status, "id", JNull).v
       IN  message_status_store' =
               [message_status_store EXCEPT
                   ![message_id].status = PyGet(status, "status", JNull).v]
    /\ inflight' = [inflight EXCEPT ![r].pc = "details"]
    /\ UNCHANGED <<environ, recent_requests, arrived, issued, completed>>

(* line 128: message_status_store[message_id]["details"] = status *)
WebhookSetDetails(r) ==
    /\ At(r, WEBHOOK, "details") /\ Turn(r)
    /\ LET status == StatusList(inflight[r].raw)[inflight[r].i]
           message_id == PyGet(status, "id", JNull).v
       IN  message_status_store' =
               [message_status_store EXCEPT ![message_id].details = status]
    /\ inflight' = NextStatus(r, inflight[r].i)
    /\ UNCHANGED <<environ, recent_requests, arrived, issued, completed>>

(* lines 175-193: call_next has returned; the entry is built and appended *)
LogAppend(r) ==
    /\ r \in Requests /\ inflight[r].pc = "finally" /\ Turn(r)
    /\ recent_requests' = Append(recent_requests, LogEntry(r, inflight[r]))
    /\ completed' = Append(completed, LogEntry(r, inflight[r]))
    /\ inflight' = [inflight EXCEPT ![r].pc = "evict"]
    /\ UNCHANGED <<environ, message_status_store, arrived, issued>>

(* lines 194-197: the oldest entry is evicted over the capacity; the       *)
(* response is returned                                                    *)
LogEvict(r) ==
    /\ r \in Requests /\ inflight[r].pc = "evict" /\ Turn(r)
    /\ recent_requests' = IF Len(recent_requests) > MAX_STORED_REQUESTS
                          THEN Tail(recent_requests) ELSE recent_requests
    /\ inflight' = [q \in Requests \ {r} |-> inflight[q]]
    /\ UNCHANGED <<environ, message_status_store, arrived, issued, completed>>

(* The log after 99 monitoring requests handled one after the other *)
WarmLog ==
    [id \in 1..(MAX_STORED_REQUESTS - 1) |->
        LogEntry(id, [Frame(MONITORING, "finally", 0, "", "")
                          EXCEPT !.resp = get_recent_requests(<<>>)])]

(* The service after those 99 requests, with nothing dispatched yet *)
InitSteps ==
    /\ environ \in InitialEnvirons
    /\ message_status_store = NoStore
    /\ recent_requests = WarmLog
    /\ inflight = NoRequests
    /\ arrived = MAX_STORED_REQUESTS - 1
    /\ issued = {}
    /\ completed = WarmLog

NextSteps ==
    \/ ArriveSteps
    \/ \E r \in Requests : Turn(r) /\ WebhookVerify(r)
    \/ \E r \in Requests : WebhookBegin(r)
    \/ \E r \in Requests : WebhookLookup(r)
    \/ \E r \in Requests : WebhookSetStatus(r)
    \/ \E r \in Requests : WebhookSetDetails(r)
    \/ \E r \in Requests : Turn(r) /\ SendStart(r)
    \/ \E r \in Requests : Turn(r) /\ SendFinish(r)
    \/ \E r \in Requests : Turn(r) /\ GetMessageStatus(r)
    \/ \E r \in Requests : LogAppend(r)
    \/ \E r \in Requests : LogEvict(r)

SpecSteps == InitSteps /\ [][NextSteps]_vars

-----------------------------------------------------------------------------
(* Vocabulary of the properties *)

(* Request r takes the step that leaves pc "from" on this transition. *)
Leaves(r, path, from) == At(r, path, from) /\ inflight'[r].pc # from

(* The signature the provider computes for body raw with the secret *)
ExpectedSignature(secret, raw) == "sha256=" \o HmacSha256Hex(secret, raw)

InvalidSignature == HTTPException(403, "Invalid webhook signature", "")
TokenMismatch == HTTPException(403, "Verification token mismatch", "")
Received == Return(JDict("status" :> JStr("received")))

(* The request was turned down: nothing was returned by an endpoint. *)
Rejected(resp) == resp.kind \in {"HTTPException", "exception"}

(* The token a handshake is checked against *)
ConfiguredToken ==
    IF environ.WEBHOOK_VERIFY_TOKEN.set THEN environ.WEBHOOK_VERIFY_TOKEN.s
    ELSE "your_verify_token"

RECURSIVE Concat(_)
Concat(seqs) == IF seqs = <<>> THEN <<>> ELSE Head(seqs) \o Concat(Tail(seqs))

IsDict(v) == v.t = "dict"
IsList(v) == v.t = "list"
Has(v, key) == IsDict(v) /\ key \in DOMAIN v.kv

IsMessages(change) == Has(change, "field") /\ change.kv["field"] = JStr("messages")

(* A body of the shape section 6 gives a status update: a dict with a list *)
(* of entries, each a dict with a list of changes, each a dict; the value  *)
(* of a "messages" change holds a list of statuses.                         *)
IsStatusPayload(body) ==
    /\ Has(body, "entry") /\ IsList(body.kv["entry"])
    /\ ~(Has(body, "hub.mode") /\ body.kv["hub.mode"] = JStr("subscribe"))
    /\ \A e \in 1..Len(body.kv["entry"].xs) :
         LET entry == body.kv["entry"].xs[e]
         IN  /\ Has(entry, "changes") /\ IsList(entry.kv["changes"])
             /\ \A c \in 1..Len(entry.kv["changes"].xs) :
                  LET change == entry.kv["changes"].xs[c]
                  IN  /\ IsDict(change)
                      /\ IsMessages(change)
                         => /\ Has(change, "value")
                            /\ Has(change.kv["value"], "statuses")
                            /\ IsList(change.kv["value"].kv["statuses"])

(* The status objects of the "messages" changes of a status payload, in    *)
(* payload order                                                            *)
StatusObjects(body) ==
    Concat([e \in 1..Len(body.kv["entry"].xs) |->
        LET changes == body.kv["entry"].xs[e].kv["changes"].xs
        IN  Concat([c \in 1..Len(changes) |->
                IF IsMessages(changes[c])
                THEN changes[c].kv["value"].kv["statuses"].xs ELSE <<>>])])

(* The status payload of body raw, if it is one *)
StatusesOf(raw) ==
    IF RawBodies[raw] # Unparseable /\ IsStatusPayload(RawBodies[raw])
    THEN StatusObjects(RawBodies[raw]) ELSE <<>>

(* The last status object of xs that names tracking id x, if any *)
Names(item, x) == Has(item, "id") /\ item.kv["id"] = x
LastFor(xs, x) ==
    LET hits == {i \in 1..Len(xs) : Names(xs[i], x)}
    IN  xs[CHOOSE i \in hits : \A j \in hits : j <= i]

(* What a status query for tracking id x answers in a given store *)
Query(x, store) == get_message_status(x.s, store)

-----------------------------------------------------------------------------
(* Signature verification *)

SecretOf(env) == env.META_APP_SECRET

(* C1: with a secret configured, a webhook request whose non-empty         *)
(* x-hub-signature-256 header differs from "sha256=" + hex(HMAC(secret,    *)
(* body)) is rejected with 403 "Invalid webhook signature" by the          *)
(* verification step itself: the endpoint never runs (no challenge echoed, *)
(* no acknowledgement) and the Status Store is unchanged.                  *)
C1_InvalidSignatureIs403 ==
    [][\A r \in Requests :
        (/\ Leaves(r, WEBHOOK, "verify")
         /\ SecretOf(environ).set
         /\ inflight[r].signature # ""
         /\ inflight[r].signature
              # ExpectedSignature(SecretOf(environ).s, inflight[r].raw))
        => /\ inflight'[r].pc = "finally"
           /\ inflight'[r].resp = InvalidSignature
           /\ message_status_store' = message_status_store]_vars

(* C2, as stated: with secret S configured, verification of body B         *)
(* succeeds exactly when the supplied signature value is                   *)
(* "sha256=" + hex(HMAC(S, B)).                                            *)
C2_VerifiesExactlyExpected ==
    [][\A r \in Requests :
        (Leaves(r, WEBHOOK, "verify") /\ SecretOf(environ).set)
        => (inflight'[r].pc = "endpoint"
            <=> inflight[r].signature
                  = ExpectedSignature(SecretOf(environ).s, inflight[r].raw))]_vars

(* C2, amended: with secret S configured, verification of body B succeeds  *)
(* when the signature is "sha256=" + hex(HMAC(S, B)) and fails (the        *)
(* request is turned down, the endpoint does not run) for every other      *)
(* non-empty signature value.                                              *)
C2_VerifiesExpectedRejectsOtherNonEmpty ==
    [][\A r \in Requests :
        (Leaves(r, WEBHOOK, "verify") /\ SecretOf(environ).set)
        => LET expected == ExpectedSignature(SecretOf(environ).s, inflight[r].raw)
               signature == inflight[r].signature
           IN  /\ signature = expected => inflight'[r].pc = "endpoint"
               /\ (signature # "" /\ signature # expected)
                  => (inflight'[r].pc = "finally" /\ Rejected(inflight'[r].resp))]_vars

(* A request that carried a signature has passed verification while        *)
(* another, whose signature was computed with a different secret, was      *)
(* rejected.                                                               *)
C2_Witness ==
    \E r, q \in Requests :
        /\ inflight[r].path = WEBHOOK /\ inflight[r].signature # ""
        /\ inflight[r].pc = "endpoint"
        /\ inflight[q].path = WEBHOOK /\ inflight[q].signature # ""
        /\ inflight[q].pc = "finally" /\ inflight[q].resp = InvalidSignature

(* C3: a webhook request without a signature header passes verification,   *)
(* whatever its body and whether or not a secret is configured, and goes   *)
(* on to the endpoint.                                                     *)
C3_NoSignatureVerifies ==
    [][\A r \in Requests :
        (Leaves(r, WEBHOOK, "verify") /\ inflight[r].signature = "")
        => (inflight'[r].pc = "endpoint" /\ inflight'[r].resp = NoResp)]_vars

(* With no secret configured, an unsigned status update has been          *)
(* processed and acknowledged while an unsigned unparseable body has       *)
(* passed verification too.                                                *)
C3_Witness ==
    \E r, q \in Requests :
        /\ ~SecretOf(environ).set
        /\ inflight[r].path = WEBHOOK /\ inflight[r].signature = ""
        /\ inflight[r].pc = "finally" /\ inflight[r].resp = Received
        /\ inflight[q].path = WEBHOOK /\ inflight[q].signature = ""
        /\ inflight[q].pc = "endpoint" /\ RawBodies[inflight[q].raw] = Unparseable

-----------------------------------------------------------------------------
(* Status tracking *)

(* The tracking id a provider response carries *)
TrackingIdsOf(result) ==
    IF /\ Has(result, "messages") /\ IsList(result.kv["messages"])
       /\ Len(result.kv["messages"].xs) > 0
       /\ Has(result.kv["messages"].xs[1], "id")
    THEN {result.kv["messages"].xs[1].kv["id"]} ELSE {}

StatusField(item) == IF Has(item, "status") THEN item.kv["status"] ELSE JNull

(* C4: after a successful dispatch whose provider response carries         *)
(* tracking id X, a status query for X answers a record with status        *)
(* "sent"; after a webhook has processed status updates for a tracked X,   *)
(* the last of them with status s and status object d, a status query for  *)
(* X answers status s and details d.                                       *)
C4_SentThenUpdated ==
    [][\A r \in Requests :
        /\ (Leaves(r, SEND, "await") /\ inflight'[r].resp.kind = "return")
           => \A x \in TrackingIdsOf(inflight'[r].resp.body.kv["api_response"]) :
                LET answer == Query(x, message_status_store')
                IN  answer.kind = "return" /\ answer.body.record.status = JStr("sent")
        /\ (Leaves(r, WEBHOOK, "endpoint") /\ inflight'[r].resp = Received)
           => \A x \in DOMAIN message_status_store :
                LET updates == StatusesOf(inflight[r].raw)
                    answer == Query(x, message_status_store')
                IN  (\E i \in 1..Len(updates) : Names(updates[i], x))
                    => /\ answer.kind = "return"
                       /\ answer.body.record.status = StatusField(LastFor(updates, x))
                       /\ answer.body.record.details = LastFor(updates, x)]_vars

(* A status query for X1 has answered "read" with the status object of the *)
(* update: X1 was dispatched, then a webhook delivered "delivered" and     *)
(* "read" for it.                                                          *)
C4_Witness ==
    \E r \in Requests :
        /\ inflight[r].path = STATUS \o "X1" /\ inflight[r].pc = "finally"
        /\ inflight[r].resp.kind = "return"
        /\ inflight[r].resp.body.record.status = JStr("read")
        /\ inflight[r].resp.body.record.details = StatusItem("X1", "read")

(* C5: every key of the Status Store is a tracking id the provider         *)
(* returned in the 2xx response of a dispatch; a webhook, a handshake or a *)
(* query adds none.                                                        *)
C5_KeysComeFromDispatch == DOMAIN message_status_store \subseteq issued

(* X1 is tracked, and a webhook with an update for X2, which no dispatch   *)
(* obtained, has been processed and acknowledged.                          *)
C5_Witness ==
    /\ DOMAIN message_status_store = {JStr("X1")}
    /\ \E r \in Requests :
        /\ inflight[r].path = WEBHOOK /\ inflight[r].pc = "finally"
        /\ inflight[r].resp = Received
        /\ \E i \in 1..Len(StatusesOf(inflight[r].raw)) :
             Names(StatusesOf(inflight[r].raw)[i], JStr("X2"))

(* C8: a webhook adds no record and changes no record but those its status *)
(* objects name; when every status object of the payload is well formed    *)
(* and names no tracked id, the Status Store is unchanged and the webhook  *)
(* answers the acknowledgement.                                            *)
C8_UnknownIdIsNoOp ==
    [][\A r \in Requests :
        Leaves(r, WEBHOOK, "endpoint")
        => LET updates == StatusesOf(inflight[r].raw)
               named(k) == \E i \in 1..Len(updates) : Names(updates[i], k)
           IN  /\ DOMAIN message_status_store' = DOMAIN message_status_store
               /\ \A k \in DOMAIN message_status_store :
                    ~named(k) => message_status_store'[k] = message_status_store[k]
               /\ (/\ updates # <<>>
                   /\ \A i \in 1..Len(updates) : IsDict(updates[i])
                   /\ \A k \in DOMAIN message_status_store : ~named(k))
                  => /\ message_status_store' = message_status_store
                     /\ inflight'[r].resp = Received]_vars

(* With X2 tracked and X1 not, a webhook status update for X1 has been     *)
(* acknowledged and the record of X2 is as the dispatch left it.           *)
C8_Witness ==
    /\ DOMAIN message_status_store = {JStr("X2")}
    /\ message_status_store[JStr("X2")].status = JStr("sent")
    /\ \E r \in Requests :
        /\ inflight[r].path = WEBHOOK /\ inflight[r].pc = "finally"
        /\ inflight[r].resp = Received
        /\ StatusesOf(inflight[r].raw) = <<StatusItem("X1", "delivered")>>

-----------------------------------------------------------------------------
(* The webhook endpoint *)

BodyOf(r) == RawBodies[inflight[r].raw]

IsSubscribe(body) ==
    body # Unparseable /\ Has(body, "hub.mode") /\ body.kv["hub.mode"] = JStr("subscribe")

(* C9: for a body whose hub.mode is "subscribe", the endpoint leaves the   *)
(* Status Store unchanged; when the supplied hub.verify_token equals the   *)
(* configured token it answers exactly the supplied hub.challenge, and     *)
(* when it differs it rejects with 403.                                    *)
C9_Handshake ==
    [][\A r \in Requests :
        (Leaves(r, WEBHOOK, "endpoint") /\ IsSubscribe(BodyOf(r)))
        => /\ message_status_store' = message_status_store
           /\ Has(BodyOf(r), "hub.verify_token")
              => IF BodyOf(r).kv["hub.verify_token"] = JStr(ConfiguredToken)
                 THEN Has(BodyOf(r), "hub.challenge")
                      => inflight'[r].resp
                           = Return(JDict("hub.challenge" :> BodyOf(r).kv["hub.challenge"]))
                 ELSE inflight'[r].resp = TokenMismatch]_vars

(* With the token T1 configured, a handshake with T1 has been answered its *)
(* challenge and one with another token has been rejected.                 *)
C9_Witness ==
    \E r, q \in Requests :
        /\ inflight[r].path = WEBHOOK /\ inflight[r].pc = "finally"
        /\ BodyOf(r) = Handshake("T1", "C1")
        /\ inflight[r].resp = Return(JDict("hub.challenge" :> JStr("C1")))
        /\ inflight[q].path = WEBHOOK /\ inflight[q].pc = "finally"
        /\ BodyOf(q) = Handshake("your_verify_token", "C2")
        /\ inflight[q].resp = TokenMismatch
        /\ ConfiguredToken = "T1"

(* C10: whatever the payload, no exception leaves the webhook endpoint:    *)
(* it answers, or fails with an HTTPException.                             *)
C10_NoExceptionLeavesWebhook ==
    [][\A r \in Requests :
        Leaves(r, WEBHOOK, "endpoint")
        => inflight'[r].resp.kind \in {"return", "HTTPException"}]_vars

-----------------------------------------------------------------------------
(* The Request Log *)

Min(a, b) == IF a < b THEN a ELSE b

LastN(xs, n) == SubSeq(xs, Len(xs) - n + 1, Len(xs))

(* C6: the Request Log never holds more than 100 entries. *)
C6_LogWithinCapacity == Len(recent_requests) <= MAX_STORED_REQUESTS

(* More requests have completed than the log holds, and the log is full. *)
C6_Witness ==
    Len(completed) > MAX_STORED_REQUESTS /\ Len(recent_requests) = MAX_STORED_REQUESTS

(* C7: after n requests have completed, the Request Log is the entries of  *)
(* the min(n, 100) most recently completed requests, oldest first.         *)
C7_LogIsMostRecent ==
    recent_requests = LastN(completed, Min(Len(completed), MAX_STORED_REQUESTS))

(* After 101 appends 100 entries remain, and the first one appended is the *)
(* one evicted: the log runs from the second entry to the last.            *)
C7_Witness ==
    /\ Len(completed) = MAX_STORED_REQUESTS + 1
    /\ Len(recent_requests) = MAX_STORED_REQUESTS
    /\ recent_requests[1] = completed[2]
    /\ recent_requests[1].id # completed[1].id
    /\ recent_requests[MAX_STORED_REQUESTS] = completed[MAX_STORED_REQUESTS + 1]

-----------------------------------------------------------------------------
(* Records over time *)

(* The status or the details of the record of k differ after the step. *)
Changed(k) ==
    \/ message_status_store'[k].status # message_status_store[k].status
    \/ message_status_store'[k].details # message_status_store[k].details

(* The step is a webhook endpoint processing a status object that names k. *)
WebhookNames(k) ==
    \E r \in Requests :
        /\ Leaves(r, WEBHOOK, "endpoint")
        /\ \E i \in 1..Len(StatusesOf(inflight[r].raw)) :
             Names(StatusesOf(inflight[r].raw)[i], k)

(* The step is a dispatch succeeding with a provider response that carries k. *)
DispatchObtains(k) ==
    \E r \in Requests :
        /\ Leaves(r, SEND, "await") /\ inflight'[r].resp.kind = "return"
        /\ k \in TrackingIdsOf(inflight'[r].resp.body.kv["api_response"])

SentRecord(phone_number) == MessageRecord(phone_number, JStr("sent"), EmptyDict)

(* C11, as stated: once a record exists for X, its status and details      *)
(* change only in a webhook step that processes a status object whose id   *)
(* is X; no dispatch, not even one whose provider response returns the     *)
(* tracked X, and no query changes them.                                   *)
C11_OnlyWebhookChangesRecord ==
    [][\A k \in DOMAIN message_status_store \cap DOMAIN message_status_store' :
        Changed(k) => WebhookNames(k)]_vars

(* C11, amended: once a record exists for X, its status and details change *)
(* only in a webhook step that processes a status object whose id is X, or *)
(* in a dispatch whose provider response returns X again, which puts the   *)
(* record back to status "sent" with empty details; no other dispatch and  *)
(* no query changes them.                                                  *)
C11_OnlyWebhookOrRedispatchChangesRecord ==
    [][\A k \in DOMAIN message_status_store \cap DOMAIN message_status_store' :
        Changed(k)
        => \/ WebhookNames(k)
           \/ /\ DispatchObtains(k)
              /\ message_status_store'[k].status = JStr("sent")
              /\ message_status_store'[k].details = EmptyDict]_vars

(* A dispatch has obtained X1 again after a webhook had set its record to  *)
(* "delivered": the record it replaced was the delivered one, and X1 is    *)
(* back to "sent" with empty details.                                      *)
C11_Witness ==
    \E r \in Requests :
        /\ inflight[r].path = SEND /\ inflight[r].pc = "finally"
        /\ inflight[r].resp.kind = "return"
        /\ inflight[r].replaced
             = {MessageRecord("p1", JStr("delivered"), StatusItem("X1", "delivered"))}
        /\ message_status_store[JStr("X1")] = SentRecord("p1")

-----------------------------------------------------------------------------
(* Dispatch *)

(* The dispatch of request r succeeds on this step. *)
Succeeds(r) == Leaves(r, SEND, "await") /\ inflight'[r].resp.kind = "return"

(* The dispatch of request r fails on this step. *)
Fails(r) == Leaves(r, SEND, "await") /\ inflight'[r].resp.kind # "return"

(* The parsed provider response a successful dispatch hands back *)
ApiResponse(resp) == resp.body.kv["api_response"]

(* C12, as stated: every dispatch that succeeds (2xx from the provider,    *)
(* "message_sent" to the caller) has registered a record with status       *)
(* "sent" under the tracking id the provider assigned.                     *)
C12_SuccessRegisters ==
    [][\A r \in Requests :
        Succeeds(r)
        => \E x \in DOMAIN message_status_store' :
             /\ x \in TrackingIdsOf(ApiResponse(inflight'[r].resp))
             /\ message_status_store'[x] = SentRecord(inflight[r].arg)]_vars

(* C12, amended: every dispatch that succeeds with a provider response     *)
(* whose "messages" list is non-empty has registered, under the id of its  *)
(* first message, a record with status "sent", empty details and the       *)
(* recipient of the dispatch; a dispatch whose 2xx response has no         *)
(* "messages" list, or an empty one, succeeds too and leaves the Status    *)
(* Store unchanged.                                                        *)
C12_SuccessRegistersWhenIdPresent ==
    [][\A r \in Requests :
        Succeeds(r)
        => LET result == ApiResponse(inflight'[r].resp)
               ids == TrackingIdsOf(result)
           IN  /\ inflight'[r].resp.body.kv["status"] = JStr("message_sent")
               /\ inflight'[r].outcome.kind = "status" /\ inflight'[r].outcome.code = 200
               /\ \A x \in ids :
                    /\ x \in DOMAIN message_status_store'
                    /\ message_status_store'[x] = SentRecord(inflight[r].arg)
               /\ (~Has(result, "messages") \/ result.kv["messages"] = EmptyList)
                  => (ids = {} /\ message_status_store' = message_status_store)]_vars

(* One dispatch has succeeded with a response that carries X1 and X1 is    *)
(* registered as sent; another has succeeded with an empty "messages" list *)
(* and nothing else is registered.                                         *)
C12_Witness ==
    \E r, q \in Requests :
        /\ inflight[r].path = SEND /\ inflight[r].pc = "finally"
        /\ inflight[r].resp.kind = "return"
        /\ TrackingIdsOf(ApiResponse(inflight[r].resp)) = {JStr("X1")}
        /\ inflight[q].path = SEND /\ inflight[q].pc = "finally"
        /\ inflight[q].resp.kind = "return"
        /\ ApiResponse(inflight[q].resp) = JDict("messages" :> EmptyList)
        /\ DOMAIN message_status_store = {JStr("X1")}
        /\ message_status_store[JStr("X1")] = SentRecord("p1")

(* C13: a dispatch that fails leaves the Status Store unchanged and fails  *)
(* with an HTTPException: with the status code of the provider when the    *)
(* provider answered an error status, with 500 for every other failure (no *)
(* connection, a 2xx body that is not JSON or not of the expected shape).  *)
C13_FailedDispatch ==
    [][\A r \in Requests :
        Fails(r)
        => LET outcome == inflight'[r].outcome
               resp == inflight'[r].resp
           IN  /\ message_status_store' = message_status_store
               /\ resp.kind = "HTTPException"
               /\ IF outcome.kind = "status" /\ outcome.code # 200
                  THEN resp.code = outcome.code
                  ELSE resp.code = 500]_vars

(* With X1 tracked, one dispatch has failed with the provider's 401 and    *)
(* another with 500 on a 2xx response whose first message has no id; X1 is *)
(* the only record.                                                        *)
C13_Witness ==
    \E r, q \in Requests :
        /\ inflight[r].path = SEND /\ inflight[r].pc = "finally"
        /\ inflight[r].outcome = [kind |-> "status", code |-> 401, json |-> 0]
        /\ inflight[r].resp.kind = "HTTPException" /\ inflight[r].resp.code = 401
        /\ inflight[q].path = SEND /\ inflight[q].pc = "finally"
        /\ inflight[q].outcome = [kind |-> "status", code |-> 200, json |-> 5]
        /\ inflight[q].resp.kind = "HTTPException" /\ inflight[q].resp.code = 500
        /\ inflight[q].resp.exc = "KeyError"
        /\ DOMAIN message_status_store = {JStr("X1")}

-----------------------------------------------------------------------------
(* Log entries *)

(* Request r completes on this step: its coroutine is gone afterwards. *)
Completes(r) == r \in Requests /\ r \notin DOMAIN inflight'

(* The log once entry is appended and the capacity restored *)
Logged(log, entry) ==
    LastN(Append(log, entry), Min(Len(log) + 1, MAX_STORED_REQUESTS))

(* How many entries of log belong to request id *)
EntriesOf(log, id) == Cardinality({i \in 1..Len(log) : log[i].id = id})

(* Each request received so far has no entry while it is in flight and     *)
(* exactly one from its completion on, in the state after the step.        *)
OneEntryEach ==
    \A id \in 1..arrived' :
        EntriesOf(completed', id) = IF id \in DOMAIN inflight' THEN 0 ELSE 1

(* C15, as stated: every request appends exactly one entry to the Request  *)
(* Log, when it completes, whether its handler returned or raised; the     *)
(* entry of a request whose handler raised, an HTTPException included, has *)
(* status code 500 and the error text; no other step touches the log.      *)
C15_OneEntryPerRequest ==
    [][/\ \A r \in Requests :
            Completes(r)
            => LET resp == inflight[r].resp
                   entry == recent_requests'[Len(recent_requests')]
               IN  /\ recent_requests' = Logged(recent_requests, entry)
                   /\ entry.id = r /\ entry.path = inflight[r].path
                   /\ IF Rejected(resp)
                      THEN entry.status_code = 500 /\ entry.error # ""
                      ELSE entry.status_code = resp.code /\ entry.error = ""
       /\ (\A r \in Requests : ~Completes(r)) => recent_requests' = recent_requests
       /\ OneEntryEach]_vars

(* C15, amended: every request appends exactly one entry to the Request    *)
(* Log, when it completes (entries are in completion order); the entry of  *)
(* a request whose handler let an exception other than HTTPException       *)
(* escape has status code 500 and the text of the exception; the entry of  *)
(* every other request, one whose handler raised an HTTPException          *)
(* included, has the status code of the response and no error text; no     *)
(* other step touches the log.                                             *)
C15_OneEntryPerRequestAtCompletion ==
    [][/\ \A r \in Requests :
            Completes(r)
            => LET resp == inflight[r].resp
                   entry == recent_requests'[Len(recent_requests')]
               IN  /\ recent_requests' = Logged(recent_requests, entry)
                   /\ entry.id = r /\ entry.path = inflight[r].path
                   /\ IF resp.kind = "exception"
                      THEN entry.status_code = 500 /\ entry.error = resp.exc
                      ELSE entry.status_code = resp.code /\ entry.error = ""
       /\ (\A r \in Requests : ~Completes(r)) => recent_requests' = recent_requests
       /\ OneEntryEach]_vars

(* The second request received completed first, with the 404 of an unknown *)
(* tracking id; the first completed after it, its webhook handler having   *)
(* let a JSONDecodeError escape, and is logged with 500 and that error.    *)
C15_Witness ==
    /\ Len(recent_requests) = 2
    /\ recent_requests[1] = [id |-> 2, path |-> STATUS \o "X1", status_code |-> 404,
                             error |-> ""]
    /\ recent_requests[2] = [id |-> 1, path |-> WEBHOOK, status_code |-> 500,
                             error |-> "JSONDecodeError"]

-----------------------------------------------------------------------------
(* Batches of status updates *)

ProcessingFailed(resp) ==
    resp.kind = "HTTPException" /\ resp.code = 500
    /\ resp.detail = "Failed to process webhook"

(* The status objects of xs that precede its first malformed item *)
WellFormedPrefix(xs) ==
    LET bad == {i \in 1..Len(xs) : ~IsDict(xs[i])}
    IN  SubSeq(xs, 1, (CHOOSE i \in bad : \A j \in bad : i <= j) - 1)

(* C16: when the status objects of a webhook batch include a malformed     *)
(* item, the request ends with the webhook-processing failure (500) and    *)
(* the Status Store holds the updates of the items that precede the        *)
(* malformed one: each tracked id they name has the status and details of  *)
(* the last of them naming it, every other record is as before.            *)
C16_EarlierUpdatesStay ==
    [][\A r \in Requests :
        (/\ Leaves(r, WEBHOOK, "endpoint")
         /\ \E i \in 1..Len(StatusesOf(inflight[r].raw)) :
              ~IsDict(StatusesOf(inflight[r].raw)[i]))
        => LET before == WellFormedPrefix(StatusesOf(inflight[r].raw))
           IN  /\ ProcessingFailed(inflight'[r].resp)
               /\ DOMAIN message_status_store' = DOMAIN message_status_store
               /\ \A k \in DOMAIN message_status_store :
                    IF \E i \in 1..Len(before) : Names(before[i], k)
                    THEN /\ message_status_store'[k].status
                              = StatusField(LastFor(before, k))
                         /\ message_status_store'[k].details = LastFor(before, k)
                    ELSE message_status_store'[k] = message_status_store[k]]_vars

(* With X1 and X2 tracked, the batch "X1 read, garbage, X2 read" has ended *)
(* with the webhook-processing failure: X1 is "read", X2 still "sent".     *)
C16_Witness ==
    /\ DOMAIN message_status_store = {JStr("X1"), JStr("X2")}
    /\ message_status_store[JStr("X1")].status = JStr("read")
    /\ message_status_store[JStr("X1")].details = StatusItem("X1", "read")
    /\ message_status_store[JStr("X2")] = SentRecord("p1")
    /\ \E r \in Requests :
        /\ inflight[r].path = WEBHOOK /\ inflight[r].pc = "finally"
        /\ ProcessingFailed(inflight[r].resp)
        /\ StatusesOf(inflight[r].raw)
             = <<StatusItem("X1", "read"), JStr("garbage"), StatusItem("X2", "read")>>

-----------------------------------------------------------------------------
(* Retention *)

(* C17: no step removes a record from the Status Store: the set of tracked *)
(* ids only grows, and a status query that answers a record for an id      *)
(* before a step answers a record for it after the step.                   *)
C17_RecordsAreNeverRemoved ==
    [][/\ DOMAIN message_status_store \subseteq DOMAIN message_status_store'
       /\ \A x \in DOMAIN message_status_store :
            Query(x, message_status_store).kind = "return"
            => Query(x, message_status_store').kind = "return"]_vars

(* X1 and X2 are both tracked, after two dispatches, and a status query    *)
(* for X1 has answered its record.                                         *)
C17_Witness ==
    /\ DOMAIN message_status_store = {JStr("X1"), JStr("X2")}
    /\ \E r \in Requests :
        /\ inflight[r].path = STATUS \o "X1" /\ inflight[r].pc = "finally"
        /\ inflight[r].resp.kind = "return"
        /\ inflight[r].resp.body.record = message_status_store[JStr("X1")]

-----------------------------------------------------------------------------
(* Which changes of a payload are applied *)

(* C18: when the endpoint processes a body that is no handshake, a record  *)
(* changes only if a status object of a change with field "messages" names *)
(* it; a dict without an entry list, and a payload none of whose changes   *)
(* has field "messages" (another field, or none), leave the Status Store   *)
(* unchanged and are acknowledged; when every status object of the         *)
(* "messages" changes is well formed, each tracked id they name has both   *)
(* the status and the details of the last of them naming it, in payload    *)
(* order, and the payload is acknowledged.                                 *)
C18_OnlyMessagesChangesApply ==
    [][\A r \in Requests :
        (Leaves(r, WEBHOOK, "endpoint") /\ ~IsSubscribe(BodyOf(r)))
        => LET body == BodyOf(r)
               updates == StatusesOf(inflight[r].raw)
               named(k) == \E i \in 1..Len(updates) : Names(updates[i], k)
           IN  /\ DOMAIN message_status_store' = DOMAIN message_status_store
               /\ \A k \in DOMAIN message_status_store : Changed(k) => named(k)
               /\ (body # Unparseable /\ IsDict(body) /\ ~Has(body, "entry"))
                  => (/\ message_status_store' = message_status_store
                      /\ inflight'[r].resp = Received)
               /\ (/\ body # Unparseable /\ IsStatusPayload(body)
                   /\ \A i \in 1..Len(updates) : IsDict(updates[i]))
                  => /\ inflight'[r].resp = Received
                     /\ \A k \in DOMAIN message_status_store :
                          IF named(k)
                          THEN /\ message_status_store'[k].status
                                    = StatusField(LastFor(updates, k))
                               /\ message_status_store'[k].details = LastFor(updates, k)
                          ELSE message_status_store'[k] = message_status_store[k]]_vars

(* With X1 and X2 tracked, a payload that names X1 in an "account_update"  *)
(* change and in a change without field, and X2 in a "messages" change,    *)
(* has been acknowledged: X1 is as dispatched, X2 is "delivered".          *)
C18_Witness ==
    /\ DOMAIN message_status_store = {JStr("X1"), JStr("X2")}
    /\ message_status_store[JStr("X1")] = SentRecord("p1")
    /\ message_status_store[JStr("X2")].status = JStr("delivered")
    /\ message_status_store[JStr("X2")].details = StatusItem("X2", "delivered")
    /\ \E r \in Requests :
        /\ inflight[r].path = WEBHOOK /\ inflight[r].pc = "finally"
        /\ inflight[r].resp = Received
        /\ IsStatusPayload(BodyOf(r))
        /\ \E i, j \in 1..Len(BodyOf(r).kv["entry"].xs[1].kv["changes"].xs) :
             LET changes == BodyOf(r).kv["entry"].xs[1].kv["changes"].xs
             IN  /\ Has(changes[i], "field")
                 /\ changes[i].kv["field"] = JStr("account_update")
                 /\ ~Has(changes[j], "field")

-----------------------------------------------------------------------------
(* A callback that overtakes its dispatch *)

(* C19: a dispatch registers nothing before the provider has answered: the *)
(* step that takes it to the await leaves the Status Store unchanged, and  *)
(* other requests are handled while it waits; a webhook processed while a  *)
(* dispatch waits, none of whose status objects names a tracked id, leaves *)
(* the Status Store unchanged; and the record a dispatch registers for the *)
(* id it obtains has status "sent" and empty details whatever callbacks    *)
(* for that id were processed before.                                      *)
C19_CallbackBeforeRegistration ==
    [][\A r \in Requests :
        /\ Leaves(r, SEND, "send")
           => (inflight'[r].pc = "await" /\ message_status_store' = message_status_store)
        /\ (Leaves(r, WEBHOOK, "endpoint") /\ \E d \in Requests : At(d, SEND, "await"))
           => LET updates == StatusesOf(inflight[r].raw)
              IN  (\A k \in DOMAIN message_status_store :
                      \A i \in 1..Len(updates) : ~Names(updates[i], k))
                  => message_status_store' = message_status_store
        /\ Succeeds(r)
           => \A x \in TrackingIdsOf(ApiResponse(inflight'[r].resp)) :
                /\ message_status_store'[x].status = JStr("sent")
                /\ message_status_store'[x].details = EmptyDict]_vars

(* Only a dispatch and a webhook were received.  The webhook carried the   *)
(* signature for the secret that the dispatch loaded from the .env file,   *)
(* so it was verified after the dispatch had started; it was acknowledged  *)
(* for the update "X1 delivered", and X1, registered by the dispatch, is   *)
(* "sent" with empty details: the callback was processed while the         *)
(* dispatch waited for the provider and changed nothing.                   *)
C19_Witness ==
    /\ arrived = 2
    /\ SecretOf(environ) = EnvStr("s1")
    /\ message_status_store = (JStr("X1") :> SentRecord("p1"))
    /\ \E d, r \in Requests :
        /\ inflight[d].path = SEND /\ inflight[d].pc = "finally"
        /\ inflight[d].resp.kind = "return" /\ inflight[d].replaced = {}
        /\ TrackingIdsOf(ApiResponse(inflight[d].resp)) = {JStr("X1")}
        /\ inflight[r].path = WEBHOOK /\ inflight[r].pc = "finally"
        /\ inflight[r].signature = ExpectedSignature("s1", inflight[r].raw)
        /\ inflight[r].resp = Received
        /\ StatusesOf(inflight[r].raw) = <<StatusItem("X1", "delivered")>>

-----------------------------------------------------------------------------
(* Atomicity of the mutations *)

(* The positions inside a mutation: after the append and before the        *)
(* eviction, after the lookup and before the first overwrite, between the  *)
(* two overwrites                                                          *)
MidMutation == {"evict", "status", "details"}

(* The step is taken by request r alone: no other request arrives, moves   *)
(* or completes.                                                           *)
StepOf(r) ==
    /\ DOMAIN inflight' \subseteq DOMAIN inflight
    /\ \A q \in Requests \ {r} : q \in DOMAIN inflight' /\ inflight'[q] = inflight[q]

(* A record is as a dispatch registered it, or as one status object wrote  *)
(* it: its status is the status of its details.                            *)
WholeRecord(record) ==
    \/ record.status = JStr("sent") /\ record.details = EmptyDict
    \/ IsDict(record.details) /\ record.status = StatusField(record.details)

(* What a handler that is resumed finds: the log within its capacity and   *)
(* holding the most recent entries, every record whole.                    *)
NothingLost ==
    /\ recent_requests = LastN(completed, Min(Len(completed), MAX_STORED_REQUESTS))
    /\ \A k \in DOMAIN message_status_store : WholeRecord(message_status_store[k])

(* C14: while a handler is between the append to the log and the eviction, *)
(* or between the lookup of a record and the end of its overwrite, every   *)
(* step is that handler's; hence whenever no handler is inside such a pair *)
(* the log holds exactly the most recent entries, at most 100, and every   *)
(* record holds the status and the details of one and the same update.     *)
C14_MutationsAreAtomic ==
    [][/\ \A r \in Requests : inflight[r].pc \in MidMutation => StepOf(r)
       /\ (\A r \in DOMAIN inflight' : inflight'[r].pc \notin MidMutation)
          => NothingLost']_vars

(* The log holds 101 entries: a request has appended its entry and has not *)
(* evicted yet, while a webhook that has made X1 "read" waits to append    *)
(* its own entry.                                                          *)
C14_Witness ==
    /\ Len(recent_requests) = MAX_STORED_REQUESTS + 1
    /\ \E r, q \in Requests :
        /\ inflight[r].pc = "evict"
        /\ inflight[q].path = WEBHOOK /\ inflight[q].pc = "finally"
        /\ JStr("X1") \in DOMAIN message_status_store
        /\ message_status_store[JStr("X1")].status = JStr("read")

=============================================================================
